---- MODULE Spec2Model ----
(***************************************************************************)
(* A model of server.js: the room registry, the per-room blackjack phase   *)
(* machine, and every timer the server arms.                               *)
(*                                                                         *)
(* Modelling conventions                                                   *)
(*  - A room object lives in a heap slot (heap[o]); the registry `rooms`   *)
(*    maps a room id to the slot of the object registered under it, or to  *)
(*    NoRoom.  Timer callbacks close over the room OBJECT (`room`) and     *)
(*    over the room ID (`roomId`); the model keeps the two apart exactly   *)
(*    where the code does.                                                 *)
(*  - room.timers[k] holds the last handle stored under key k.  A handle   *)
(*    that was overwritten while its timer was still running can no longer *)
(*    be cleared by anybody: it is kept in `lost`.                         *)
(*  - setTimeout callbacks whose handle is never stored (the delayed       *)
(*    dealerTurn, the delayed final ranking) are queued per room id.       *)
(*  - Time is abstracted to the order of firings.  The delayed callbacks   *)
(*    (2 s) fire in the order they were queued; a countdown or deadline    *)
(*    (9 s and more) fires after every delayed callback that was queued    *)
(*    when it was armed; otherwise an armed timer may fire at any later    *)
(*    step.  The one-second countdown ticks that only emit a number are    *)
(*    not steps; the tick on which a countdown reaches its end is.         *)
(*  - A card is its value ("A", "2".."10", "J", "Q", "K"); suits play no   *)
(*    role in server.js.  The deck is a shuffled permutation from which    *)
(*    cards are popped: a pop yields some value of DrawValues, the model   *)
(*    does not track which cards have left the deck.                       *)
(*  - The transport (socket.io) is outside the repository.  socket.rooms   *)
(*    is modelled as the list of rooms the socket joined, in join order,   *)
(*    still populated when the 'disconnect' handler runs, as the handler   *)
(*    at lines 115-126 presupposes.                                        *)
(***************************************************************************)
EXTENDS Integers, Sequences, FiniteSets, TLC

VARIABLES
    connected,    \* the sockets whose connection is open
    socketRooms,  \* socket.rooms without the socket's own id, in join order
    rooms,        \* the registry: room id -> heap slot, or NoRoom
    heap,         \* the room objects
    pendingDealer,\* per room id: queued setTimeout(dealerTurn) callbacks
    pendingFinal, \* per room id: queued setTimeout(final ranking) callbacks
    ev,           \* the handler or callback that ran last
    out,          \* the messages that handler emitted, in order
    betsPlaced,   \* how many bets the server has accepted so far
    staleFired,   \* how many callbacks fired outside the phase that armed them
    satOut        \* history, per room id: the players that a round of the room
                  \* has started without, as eliminated

vars == <<connected, socketRooms, rooms, heap, pendingDealer, pendingFinal, ev, out,
          betsPlaced, staleFired, satOut>>

(***************************************************************************)
(* Program constants                                                       *)
(***************************************************************************)
MAX_ROUNDS == 5
MAX_PLAYERS == 5
INITIAL_CHIPS == 1000
DEALER_STANDS_AT == 17
BUST_OVER == 21
RANKING_SIZE == 5

(***************************************************************************)
(* Bounds of the model                                                     *)
(***************************************************************************)
MaxBets == 2          \* bets the clients place in one run
MaxStale == 1         \* callbacks that fire outside the phase that armed them
MaxHand == 3          \* cards of a hand in SpecScore

GameSockets == {"s1", "s2"}
RoomIds == {"r1"}
DrawValues == {"7", "K"}
AllValues == {"A", "2", "3", "4", "5", "6", "7", "8", "9", "10", "J", "Q", "K"}

\* the room objects of a run: one heap slot; only SpecAgain creates a room in
\* the slot of a destroyed one
Objs == {"o1"}
NoRoom == "noRoom"
Off == [on |-> FALSE, phase |-> "none", round |-> 0, waitFor |-> 0]
TimerKeys == {"betCountdown", "betTimeout", "actionTimer", "dealerTurn", "countdownTimer"}

(***************************************************************************)
(* Cards and scores                                                        *)
(***************************************************************************)
\* parseInt(card.value) for the number cards
parseIntValue(v) ==
    CASE v = "2" -> 2 [] v = "3" -> 3 [] v = "4" -> 4 [] v = "5" -> 5
      [] v = "6" -> 6 [] v = "7" -> 7 [] v = "8" -> 8 [] v = "9" -> 9
      [] v = "10" -> 10

\* the for loop of calculateScore: <<score, aceCount>> after the cards of hand
RECURSIVE scoreLoop(_)
scoreLoop(hand) ==
    IF hand = <<>> THEN <<0, 0>>
    ELSE LET rest == scoreLoop(SubSeq(hand, 1, Len(hand) - 1))
             v == hand[Len(hand)]
         IN  IF v = "A" THEN <<rest[1] + 11, rest[2] + 1>>
             ELSE IF v \in {"J", "Q", "K"} THEN <<rest[1] + 10, rest[2]>>
             ELSE <<rest[1] + parseIntValue(v), rest[2]>>

\* a faulty while loop, to test what C8 states: an if in its place
aceLoopOnce(score, aceCount) ==
    IF score > BUST_OVER /\ aceCount > 0 THEN score - 10 ELSE score

\* the while loop of calculateScore
RECURSIVE aceLoop(_, _)
aceLoop(score, aceCount) ==
    IF score > BUST_OVER /\ aceCount > 0 THEN aceLoop(score - 10, aceCount - 1)
    ELSE score

calculateScore(hand) == aceLoop(scoreLoop(hand)[1], scoreLoop(hand)[2])

(***************************************************************************)
(* Players and room objects                                                *)
(***************************************************************************)
createPlayer ==
    [chips |-> INITIAL_CHIPS, bet |-> 0, hand |-> <<>>, score |-> 0,
     status |-> "waiting", isEliminated |-> FALSE, result |-> "unset"]

NoTimers == [k \in TimerKeys |-> Off]
NoLost == [k \in TimerKeys |-> <<>>]

\* a heap slot that holds no room object
FreeSlot ==
    [id |-> "", ids |-> <<>>, players |-> <<>>, gameState |-> "none", round |-> 0,
     dealer |-> [hand |-> <<>>, score |-> 0], timers |-> NoTimers, lost |-> NoLost]

\* the object literal of createRoom, line 50
newRoom(roomId, s) ==
    [id |-> roomId, ids |-> <<s>>, players |-> (s :> createPlayer),
     gameState |-> "waiting", round |-> 0,
     dealer |-> [hand |-> <<>>, score |-> 0], timers |-> NoTimers, lost |-> NoLost]

SeqRange(q) == {q[i] : i \in 1..Len(q)}
RemoveFromSeq(q, x) == SelectSeq(q, LAMBDA y : y # x)

\* Object.values(room.players) / for (const id in room.players): insertion order
PlayerIds(room) == SeqRange(room.ids)

(***************************************************************************)
(* The mutable world a handler works on, and the handlers' helpers.        *)
(* Every helper takes the world and returns the world after the call.      *)
(***************************************************************************)
World == [rooms |-> rooms, heap |-> heap, pendingDealer |-> pendingDealer,
          pendingFinal |-> pendingFinal, out |-> <<>>]

Emit(w, msg) == [w EXCEPT !.out = Append(@, msg)]

RECURSIVE SumOver(_, _)
SumOver(f, S) ==
    IF S = {} THEN 0 ELSE LET x == CHOOSE y \in S : TRUE IN f[x] + SumOver(f, S \ {x})

\* the delayed callbacks that are queued
pendingCount(w) ==
    SumOver([r \in RoomIds |-> Len(w.pendingDealer[r]) + Len(w.pendingFinal[r])], RoomIds)

\* the dealerTurn interval ticks every 1.5 s; the other timers run 9 s and more
IsLongTimer(k) == k # "dealerTurn"

\* the context a timer of key k is armed in: the room's phase and round, and the
\* number of delayed callbacks that fire before it
ArmedIn(w, room, k) ==
    [on |-> TRUE, phase |-> room.gameState, round |-> room.round,
     waitFor |-> IF IsLongTimer(k) THEN pendingCount(w) ELSE 0]

\* the context of a callback that closes over the room id only: the object
\* registered under the id when the callback is queued, its phase and round
ArmedBy(w, roomId) ==
    IF w.rooms[roomId] = NoRoom THEN [obj |-> NoRoom, phase |-> "none", round |-> 0]
    ELSE [obj |-> w.rooms[roomId], phase |-> w.heap[w.rooms[roomId]].gameState,
          round |-> w.heap[w.rooms[roomId]].round]

\* room.timers.k = setInterval/setTimeout(...): the handle stored before is lost
\* if its timer still runs
Arm(w, o, k) ==
    LET room == w.heap[o]
    IN  [w EXCEPT !.heap[o].lost[k] = IF room.timers[k].on THEN Append(@, room.timers[k]) ELSE @,
                  !.heap[o].timers[k] = ArmedIn(w, room, k)]

\* clearInterval(room.timers.k) / clearTimeout(room.timers.k)
Clear(w, o, k) == [w EXCEPT !.heap[o].timers[k] = Off]

\* clearAllTimers, line 299
clearAllTimers(w, roomId) ==
    IF w.rooms[roomId] = NoRoom THEN w
    ELSE [w EXCEPT !.heap[w.rooms[roomId]].timers = NoTimers]

\* a faulty dealer view, to test what C10 states: nothing is hidden
dealerViewOpen(room) == [hand |-> room.dealer.hand, score |-> room.dealer.score]

\* the dealer view of updateGameState, line 296
dealerView(room) ==
    IF room.gameState = "actionPhase"
    THEN [hand |-> <<IF room.dealer.hand = <<>> THEN "undefined" ELSE room.dealer.hand[1], "hidden">>,
          score |-> IF room.dealer.hand = <<>> THEN -1
                    ELSE calculateScore(<<room.dealer.hand[1]>>)]
    ELSE [hand |-> room.dealer.hand, score |-> room.dealer.score]

\* updateGameState, lines 293-298
updateGameState(w, roomId) ==
    IF w.rooms[roomId] = NoRoom THEN w
    ELSE LET room == w.heap[w.rooms[roomId]]
         IN  Emit(w, [type |-> "gameStateUpdate", to |-> roomId,
                      players |-> room.players, gameState |-> room.gameState,
                      round |-> room.round, dealer |-> dealerView(room)])

(***************************************************************************)
(* The round: startRound, dealCards, startActionPhase,                     *)
(* checkAndEndActionPhase, dealerTurn, determineWinner                     *)
(***************************************************************************)
\* a faulty loop body, to test what C16 states: the hand is emptied and the
\* score is left
resetPlayerKeepsScore(p) ==
    [p EXCEPT !.hand = <<>>, !.bet = 0, !.result = "",
              !.status = IF p.isEliminated THEN "eliminated" ELSE "betting"]

\* the loop body of startRound, lines 139-145
resetPlayer(p) ==
    [p EXCEPT !.hand = <<>>, !.score = 0, !.bet = 0, !.result = "",
              !.status = IF p.isEliminated THEN "eliminated" ELSE "betting"]

\* startRound, lines 134-168
startRound(w, roomId) ==
    IF w.rooms[roomId] = NoRoom THEN w
    ELSE LET o == w.rooms[roomId]
             w1 == clearAllTimers(w, roomId)
             w2 == [w1 EXCEPT !.heap[o].gameState = "betting",
                              !.heap[o].dealer = [hand |-> <<>>, score |-> 0],
                              !.heap[o].players = [id \in DOMAIN @ |-> resetPlayer(@[id])]]
             w3 == Arm(Arm(w2, o, "betCountdown"), o, "betTimeout")
         IN  updateGameState(w3, roomId)

\* startGame, line 132
startGame(w, roomId) ==
    startRound([w EXCEPT !.heap[w.rooms[roomId]].round = 1], roomId)

\* the test of line 175: the player takes part in the round
isDealtIn(p) == p.bet > 0 /\ ~p.isEliminated

\* how many players before position i of room.ids are dealt in
dealtBefore(room, i) == Cardinality({j \in 1..(i - 1) : isDealtIn(room.players[room.ids[j]])})

dealtCount(room) == dealtBefore(room, Len(room.ids) + 1)

\* the cards dealCards pops: two per player dealt in, two for the dealer
cardsToDeal(room) == 2 * dealtCount(room) + 2

PositionOf(room, id) == CHOOSE i \in 1..Len(room.ids) : room.ids[i] = id

\* the loop body of dealCards, lines 174-180; draws are the cards popped, in order
dealPlayer(room, id, draws) ==
    LET p == room.players[id]
        k == dealtBefore(room, PositionOf(room, id))
        hand == p.hand \o <<draws[2 * k + 1], draws[2 * k + 2]>>
    IN  IF isDealtIn(p)
        THEN [p EXCEPT !.hand = hand, !.score = calculateScore(hand), !.status = "playing"]
        ELSE IF ~p.isEliminated THEN [p EXCEPT !.status = "stand"] ELSE p

\* startActionPhase, lines 187-206 (the interval's callback is ActionDeadline)
startActionPhase(w, roomId) ==
    IF w.rooms[roomId] = NoRoom THEN w
    ELSE LET o == w.rooms[roomId]
             w1 == [w EXCEPT !.heap[o].gameState = "actionPhase"]
         IN  Arm(updateGameState(w1, roomId), o, "actionTimer")

\* dealCards, lines 170-185
dealCards(w, roomId, draws) ==
    IF w.rooms[roomId] = NoRoom THEN w
    ELSE IF w.heap[w.rooms[roomId]].gameState # "betting" THEN w
    ELSE LET o == w.rooms[roomId]
             w1 == clearAllTimers(w, roomId)
             room == w1.heap[o]
             n == dealtCount(room)
             dhand == room.dealer.hand \o <<draws[2 * n + 1], draws[2 * n + 2]>>
             w2 == [w1 EXCEPT !.heap[o].players = [id \in DOMAIN @ |-> dealPlayer(room, id, draws)],
                              !.heap[o].dealer = [hand |-> dhand, score |-> calculateScore(dhand)]]
         IN  startActionPhase(w2, roomId)

\* the predicate of lines 31-36
allPlayersDone(room) ==
    \A id \in PlayerIds(room) :
        LET p == room.players[id]
        IN  (p.bet > 0 /\ ~p.isEliminated) => p.status \in {"stand", "bust"}

\* setTimeout(() => dealerTurn(roomId), DEALER_WAIT_TIME): the handle is not kept
scheduleDealerTurn(w, roomId) ==
    [w EXCEPT !.pendingDealer[roomId] = Append(@, ArmedBy(w, roomId))]

\* checkAndEndActionPhase, lines 28-44
checkAndEndActionPhase(w, roomId) ==
    IF w.rooms[roomId] = NoRoom THEN w
    ELSE IF w.heap[w.rooms[roomId]].gameState # "actionPhase" THEN w
    ELSE LET o == w.rooms[roomId]
         IN  IF allPlayersDone(w.heap[o])
             THEN scheduleDealerTurn(
                      Emit(Clear(w, o, "actionTimer"),
                           [type |-> "notification", to |-> roomId, message |-> "allDone"]),
                      roomId)
             ELSE w

\* dealerTurn, lines 208-215 (the interval's callback is DealerTick)
dealerTurn(w, roomId) ==
    IF w.rooms[roomId] = NoRoom THEN w
    ELSE LET o == w.rooms[roomId]
             w1 == [w EXCEPT !.heap[o].gameState = "dealer"]
         IN  Arm(updateGameState(w1, roomId), o, "dealerTurn")

\* a faulty loop body, to test what C5 states: the dealer's bust is looked at
\* before the player's
settleDealerFirst(p, dealerScore) ==
    IF p.bet > 0
    THEN IF dealerScore > BUST_OVER
         THEN [p EXCEPT !.chips = @ + p.bet, !.result = "win"]
         ELSE IF p.status = "bust" \/ p.score < dealerScore
         THEN [p EXCEPT !.chips = @ - p.bet, !.result = "lose",
                        !.isEliminated = IF p.chips - p.bet < 0 THEN TRUE ELSE @]
         ELSE IF p.score > dealerScore
         THEN [p EXCEPT !.chips = @ + p.bet, !.result = "win"]
         ELSE [p EXCEPT !.result = "push"]
    ELSE p

\* a faulty loop body, to test what C20 states: a loss never eliminates
settleKeepsPlaying(p, dealerScore) ==
    IF p.bet > 0
    THEN IF p.status = "bust"
         THEN [p EXCEPT !.chips = @ - p.bet, !.result = "loseBust"]
         ELSE IF dealerScore > BUST_OVER \/ p.score > dealerScore
         THEN [p EXCEPT !.chips = @ + p.bet, !.result = "win"]
         ELSE IF p.score < dealerScore
         THEN [p EXCEPT !.chips = @ - p.bet, !.result = "lose"]
         ELSE [p EXCEPT !.result = "push"]
    ELSE p

\* the loop body of determineWinner, lines 222-243
settle(p, dealerScore) ==
    IF p.bet > 0
    THEN IF p.status = "bust"
         THEN [p EXCEPT !.chips = @ - p.bet, !.result = "loseBust",
                        !.isEliminated = IF p.chips - p.bet < 0 THEN TRUE ELSE @]
         ELSE IF dealerScore > BUST_OVER \/ p.score > dealerScore
         THEN [p EXCEPT !.chips = @ + p.bet, !.result = "win"]
         ELSE IF p.score < dealerScore
         THEN [p EXCEPT !.chips = @ - p.bet, !.result = "lose",
                        !.isEliminated = IF p.chips - p.bet < 0 THEN TRUE ELSE @]
         ELSE [p EXCEPT !.result = "push"]
    ELSE p

\* setTimeout(() => {...final ranking...}, 2000), lines 249-278: the handle is not kept
scheduleFinalRanking(w, roomId) ==
    [w EXCEPT !.pendingFinal[roomId] = Append(@, ArmedBy(w, roomId))]

\* determineWinner, lines 218-291 (the callbacks are FinalRanking and NextRound)
determineWinner(w, roomId) ==
    IF w.rooms[roomId] = NoRoom THEN w
    ELSE LET o == w.rooms[roomId]
             dealerScore == w.heap[o].dealer.score
             w1 == [w EXCEPT !.heap[o].gameState = "result",
                             !.heap[o].players = [id \in DOMAIN @ |-> settle(@[id], dealerScore)]]
             w2 == updateGameState(w1, roomId)
         IN  IF w2.heap[o].round >= MAX_ROUNDS
             THEN scheduleFinalRanking(
                      Emit(w2, [type |-> "notification", to |-> roomId, message |-> "finalizing"]),
                      roomId)
             ELSE Arm(w2, o, "countdownTimer")

(***************************************************************************)
(* Inputs                                                                  *)
(***************************************************************************)
\* what a client sends as `amount`: a number, given in tenths, or a text that
\* is no number
Num(tenths) == [isNum |-> TRUE, tenths |-> tenths]
NotANumber == [isNum |-> FALSE, tenths |-> 0]
AmountInputs == {Num(10010), Num(10015), Num(5), Num(0), Num(-10010), NotANumber}

\* parseInt(amount, 10): the digits before the decimal point, NaN for a text
parseInt10(a) ==
    IF ~a.isNum THEN [nan |-> TRUE, n |-> 0]
    ELSE [nan |-> FALSE,
          n |-> IF a.tenths >= 0 THEN a.tenths \div 10 ELSE -((-a.tenths) \div 10)]

\* betAmount > 0, false for NaN
isPositive(x) == ~x.nan /\ x.n > 0

NullRoom == "null"

\* getRoomIdFromSocket, lines 18-24
getRoomIdFromSocket(s) == IF socketRooms[s] = <<>> THEN NullRoom ELSE Head(socketRooms[s])

\* socket.join(roomId)
socketJoin(s, roomId) ==
    [socketRooms EXCEPT ![s] = IF roomId \in SeqRange(@) THEN @ ELSE Append(@, roomId)]

(***************************************************************************)
(* Committing a handler's world                                            *)
(***************************************************************************)
DeadSlot == [FreeSlot EXCEPT !.gameState = "destroyed"]

IsRegistered(w, o) == \E r \in RoomIds : w.rooms[r] = o

HasTimers(room) ==
    \/ \E k \in TimerKeys : room.timers[k].on
    \/ \E k \in TimerKeys : room.lost[k] # <<>>

\* a room object that left the registry and that no timer refers to is garbage
Collect(w) ==
    [o \in Objs |->
        IF w.heap[o].gameState # "none" /\ ~IsRegistered(w, o) /\ ~HasTimers(w.heap[o])
        THEN DeadSlot ELSE w.heap[o]]

\* the players of the room registered under roomId that startRound has marked
\* as eliminated (line 142), now or earlier
marked(w, roomId) ==
    IF w.rooms[roomId] = NoRoom THEN {}
    ELSE LET room == w.heap[w.rooms[roomId]]
         IN  {s \in PlayerIds(room) : s \in satOut[roomId] \/ room.players[s].status = "eliminated"}

Commit(w, e) ==
    /\ rooms' = w.rooms
    /\ satOut' = [r \in RoomIds |-> marked(w, r)]
    /\ heap' = Collect(w)
    /\ pendingDealer' = w.pendingDealer
    /\ pendingFinal' = w.pendingFinal
    /\ out' = w.out
    /\ ev' = e

Event(name, s, roomId, ok) == [name |-> name, s |-> s, roomId |-> roomId, ok |-> ok]

\* a client event: no callback fires
ByClient == UNCHANGED staleFired

\* the room registered under roomId is no longer the object, or no longer in the
\* phase and round, that armed the callback
IsStale(armed, o, roomId) ==
    \/ rooms[roomId] # o
    \/ o # NoRoom /\ (heap[o].gameState # armed.phase \/ heap[o].round # armed.round)

\* a delayed callback queued by object o in context `armed` fires
ByDelayed(armed, o, roomId) ==
    /\ IsStale(armed, o, roomId) => staleFired < MaxStale
    /\ staleFired' = IF IsStale(armed, o, roomId) THEN staleFired + 1 ELSE staleFired
    /\ UNCHANGED <<connected, socketRooms, betsPlaced>>

\* a timer armed by object o in context `armed` fires
ByTimer(armed, o, roomId) ==
    /\ armed.waitFor = 0
    /\ ByDelayed(armed, o, roomId)

\* a delayed callback has fired: the timers armed while it was queued wait for
\* one callback less
delayedFired(w) ==
    LET less(t) == [t EXCEPT !.waitFor = IF @ > 0 THEN @ - 1 ELSE 0]
    IN  [w EXCEPT !.heap = [o \in Objs |->
            [@[o] EXCEPT !.timers = [k \in TimerKeys |-> less(@[k])],
                         !.lost = [k \in TimerKeys |-> [i \in 1..Len(@[k]) |-> less(@[k][i])]]]]]

\* the cards popped from the deck by one call, in order: the model explores the
\* shuffles in which these are cards of one value followed by one card of any
\* value (the dealer's second card)
Draws(n) == {d \in [1..n -> DrawValues] : \A i \in 1..(n - 1) : d[i] = d[1]}

(***************************************************************************)
(* Lobby handlers                                                          *)
(***************************************************************************)
FreeObjs == {o \in Objs : heap[o].gameState = "none"}

\* socket.on('createRoom'), lines 46-53
createRoom(w, s, roomId, o) ==
    IF w.rooms[roomId] # NoRoom
    THEN Emit(w, [type |-> "errorMsg", to |-> s, message |-> "idInUse"])
    ELSE LET w1 == [w EXCEPT !.heap[o] = newRoom(roomId, s), !.rooms[roomId] = o]
             w2 == Emit(w1, [type |-> "roomJoined", to |-> s, roomId |-> roomId])
         IN  updateGameState(w2, roomId)

\* the new room object takes the first heap slot never used
CreateRoom(s, roomId) ==
    /\ s \in connected
    /\ rooms[roomId] = NoRoom
    /\ FreeObjs # {}
    /\ LET o == CHOOSE x \in FreeObjs : TRUE
       IN  Commit(createRoom(World, s, roomId, o), Event("createRoom", s, roomId, TRUE))
    /\ socketRooms' = socketJoin(s, roomId)
    /\ UNCHANGED <<connected, betsPlaced>>
    /\ ByClient

\* createRoom with an id that is taken, line 48
CreateRoomRefused(s, roomId) ==
    /\ s \in connected
    /\ rooms[roomId] # NoRoom
    /\ Commit(createRoom(World, s, roomId, NoRoom), Event("createRoom", s, roomId, FALSE))
    /\ UNCHANGED <<connected, socketRooms, betsPlaced>>
    /\ ByClient

\* rooms[roomId].players[socket.id] = createPlayer(playerName), line 60
addPlayer(room, s) ==
    [room EXCEPT !.ids = IF s \in SeqRange(@) THEN @ ELSE Append(@, s),
                 !.players = [id \in DOMAIN @ \cup {s} |-> IF id = s THEN createPlayer ELSE @[id]]]

\* socket.on('joinRoom'), lines 55-63
acceptsJoin(w, roomId) ==
    w.rooms[roomId] # NoRoom /\ Len(w.heap[w.rooms[roomId]].ids) < MAX_PLAYERS

\* a faulty joinRoom, to test what C9 states: it does not count the players
joinRoomUncounted(w, s, roomId) ==
    IF w.rooms[roomId] = NoRoom
    THEN Emit(w, [type |-> "errorMsg", to |-> s, message |-> "noSuchRoom"])
    ELSE LET w1 == [w EXCEPT !.heap[w.rooms[roomId]] = addPlayer(@, s)]
             w2 == Emit(w1, [type |-> "roomJoined", to |-> s, roomId |-> roomId])
         IN  updateGameState(w2, roomId)

joinRoom(w, s, roomId) ==
    IF w.rooms[roomId] = NoRoom
    THEN Emit(w, [type |-> "errorMsg", to |-> s, message |-> "noSuchRoom"])
    ELSE IF Len(w.heap[w.rooms[roomId]].ids) >= MAX_PLAYERS
    THEN Emit(w, [type |-> "errorMsg", to |-> s, message |-> "roomFull"])
    ELSE LET w1 == [w EXCEPT !.heap[w.rooms[roomId]] = addPlayer(@, s)]
             w2 == Emit(w1, [type |-> "roomJoined", to |-> s, roomId |-> roomId])
         IN  updateGameState(w2, roomId)

JoinRoom(s, roomId) ==
    /\ s \in connected
    /\ acceptsJoin(World, roomId)
    /\ Commit(joinRoom(World, s, roomId), Event("joinRoom", s, roomId, TRUE))
    /\ socketRooms' = socketJoin(s, roomId)
    /\ UNCHANGED <<connected, betsPlaced>>
    /\ ByClient

\* joinRoom with an unknown id or for a full room, lines 57-58
JoinRoomRefused(s, roomId) ==
    /\ s \in connected
    /\ ~acceptsJoin(World, roomId)
    /\ Commit(joinRoom(World, s, roomId), Event("joinRoom", s, roomId, FALSE))
    /\ UNCHANGED <<connected, socketRooms, betsPlaced>>
    /\ ByClient

\* delete rooms[roomId].players[socket.id], line 118
removePlayer(room, s) ==
    [room EXCEPT !.ids = RemoveFromSeq(@, s),
                 !.players = [id \in DOMAIN @ \ {s} |-> @[id]]]

\* a faulty disconnect handler, to test what C4 states: it removes the player
\* and does not look at the players that remain
disconnectRemovesOnly(w, s, roomId) ==
    IF roomId # NullRoom /\ w.rooms[roomId] # NoRoom
       /\ s \in PlayerIds(w.heap[w.rooms[roomId]])
    THEN LET o == w.rooms[roomId]
             w1 == [w EXCEPT !.heap[o] = removePlayer(@, s)]
         IN  IF Len(w1.heap[o].ids) = 0
             THEN [clearAllTimers(w1, roomId) EXCEPT !.rooms[roomId] = NoRoom]
             ELSE updateGameState(w1, roomId)
    ELSE w

\* what the 'disconnect' handler does to the world, lines 116-125
disconnect(w, s, roomId) ==
    IF roomId # NullRoom /\ w.rooms[roomId] # NoRoom
       /\ s \in PlayerIds(w.heap[w.rooms[roomId]])
    THEN LET o == w.rooms[roomId]
             w1 == [w EXCEPT !.heap[o] = removePlayer(@, s)]
         IN  IF Len(w1.heap[o].ids) = 0
             THEN [clearAllTimers(w1, roomId) EXCEPT !.rooms[roomId] = NoRoom]
             ELSE checkAndEndActionPhase(updateGameState(w1, roomId), roomId)
    ELSE w

\* socket.on('disconnect'), lines 115-126; afterwards the connection is gone
Disconnect(s) ==
    /\ s \in connected
    /\ LET roomId == getRoomIdFromSocket(s)
       IN  Commit(disconnect(World, s, roomId), Event("disconnect", s, roomId, TRUE))
    /\ connected' = connected \ {s}
    /\ socketRooms' = [socketRooms EXCEPT ![s] = <<>>]
    /\ UNCHANGED betsPlaced
    /\ ByClient

(***************************************************************************)
(* Game handlers                                                           *)
(***************************************************************************)
\* socket.on('requestStartGame'), lines 65-72
acceptsStart(w, roomId) ==
    /\ roomId # NullRoom
    /\ w.rooms[roomId] # NoRoom
    /\ w.heap[w.rooms[roomId]].gameState = "waiting"
    /\ Len(w.heap[w.rooms[roomId]].ids) >= 1

requestStartGame(w, roomId) ==
    IF acceptsStart(w, roomId) THEN startGame(w, roomId) ELSE w

RequestStartGame(s) ==
    /\ s \in connected
    /\ acceptsStart(World, getRoomIdFromSocket(s))
    /\ Commit(requestStartGame(World, getRoomIdFromSocket(s)),
              Event("requestStartGame", s, getRoomIdFromSocket(s), TRUE))
    /\ UNCHANGED <<connected, socketRooms, betsPlaced>>
    /\ ByClient

RequestStartGameRejected(s) ==
    /\ s \in connected
    /\ ~acceptsStart(World, getRoomIdFromSocket(s))
    /\ Commit(requestStartGame(World, getRoomIdFromSocket(s)),
              Event("requestStartGame", s, getRoomIdFromSocket(s), FALSE))
    /\ UNCHANGED <<connected, socketRooms, betsPlaced>>
    /\ ByClient

\* the conditions under which placeBet stores a bet, lines 77-81
acceptsBet(w, s, roomId, amount) ==
    /\ w.rooms[roomId] # NoRoom
    /\ s \in PlayerIds(w.heap[w.rooms[roomId]])
    /\ w.heap[w.rooms[roomId]].gameState = "betting"
    /\ ~w.heap[w.rooms[roomId]].players[s].isEliminated
    /\ isPositive(parseInt10(amount))

\* lines 82-83
storeBet(w, s, roomId, amount) ==
    [w EXCEPT !.heap[w.rooms[roomId]].players[s].bet = parseInt10(amount).n,
              !.heap[w.rooms[roomId]].players[s].status = "betted"]

\* line 84
allPlayersBetted(room) ==
    \A id \in PlayerIds(room) : room.players[id].status = "betted" \/ room.players[id].isEliminated

\* a faulty placeBet, to test what C3 states: it stores the bet and leaves the
\* dealing to the bet deadline
placeBetLeavesDealing(w, s, roomId, amount, draws) ==
    IF ~acceptsBet(w, s, roomId, amount) THEN w
    ELSE updateGameState(storeBet(w, s, roomId, amount), roomId)

\* the body of socket.on('placeBet'), lines 74-93
placeBet(w, s, roomId, amount, draws) ==
    IF ~acceptsBet(w, s, roomId, amount) THEN w
    ELSE LET w1 == storeBet(w, s, roomId, amount)
             o == w1.rooms[roomId]
         IN  IF allPlayersBetted(w1.heap[o])
             THEN dealCards(Clear(Clear(w1, o, "betTimeout"), o, "betCountdown"), roomId, draws)
             ELSE updateGameState(w1, roomId)

\* the number of cards the call pops
placeBetDraws(w, s, roomId, amount) ==
    IF ~acceptsBet(w, s, roomId, amount) THEN 0
    ELSE LET room == storeBet(w, s, roomId, amount).heap[w.rooms[roomId]]
         IN  IF allPlayersBetted(room) THEN cardsToDeal(room) ELSE 0

PlaceBet(s, roomId, amount) ==
    /\ s \in connected
    /\ acceptsBet(World, s, roomId, amount)
    /\ \E draws \in Draws(placeBetDraws(World, s, roomId, amount)) :
          Commit(placeBet(World, s, roomId, amount, draws), Event("placeBet", s, roomId, TRUE))
    /\ betsPlaced < MaxBets
    /\ betsPlaced' = betsPlaced + 1
    /\ UNCHANGED <<connected, socketRooms>>
    /\ ByClient

PlaceBetRejected(s, roomId, amount) ==
    /\ s \in connected
    /\ ~acceptsBet(World, s, roomId, amount)
    /\ Commit(placeBet(World, s, roomId, amount, <<>>), Event("placeBet", s, roomId, FALSE))
    /\ UNCHANGED <<connected, socketRooms, betsPlaced>>
    /\ ByClient

\* the conditions under which hit and stand act, lines 96-98 and 107-109
acceptsAction(w, s, roomId) ==
    /\ w.rooms[roomId] # NoRoom
    /\ s \in PlayerIds(w.heap[w.rooms[roomId]])
    /\ w.heap[w.rooms[roomId]].gameState = "actionPhase"
    /\ w.heap[w.rooms[roomId]].players[s].status = "playing"

\* the body of socket.on('hit'), lines 95-104
hit(w, s, roomId, draws) ==
    IF ~acceptsAction(w, s, roomId) THEN w
    ELSE LET o == w.rooms[roomId]
             hand == Append(w.heap[o].players[s].hand, draws[1])
             score == calculateScore(hand)
             w1 == [w EXCEPT !.heap[o].players[s].hand = hand,
                             !.heap[o].players[s].score = score,
                             !.heap[o].players[s].status = IF score > BUST_OVER THEN "bust" ELSE @]
         IN  checkAndEndActionPhase(updateGameState(w1, roomId), roomId)

\* a hit that is acted on; the card popped is one of `values`
HitWith(s, roomId, values) ==
    /\ s \in connected
    /\ acceptsAction(World, s, roomId)
    /\ \E v \in values :
          Commit(hit(World, s, roomId, <<v>>), Event("hit", s, roomId, TRUE))
    /\ UNCHANGED <<connected, socketRooms, betsPlaced>>
    /\ ByClient

Hit(s, roomId) == HitWith(s, roomId, DrawValues)

HitRejected(s, roomId) ==
    /\ s \in connected
    /\ ~acceptsAction(World, s, roomId)
    /\ Commit(hit(World, s, roomId, <<>>), Event("hit", s, roomId, FALSE))
    /\ UNCHANGED <<connected, socketRooms, betsPlaced>>
    /\ ByClient

\* the body of socket.on('stand'), lines 106-113
stand(w, s, roomId) ==
    IF ~acceptsAction(w, s, roomId) THEN w
    ELSE LET w1 == [w EXCEPT !.heap[w.rooms[roomId]].players[s].status = "stand"]
         IN  checkAndEndActionPhase(updateGameState(w1, roomId), roomId)

Stand(s, roomId) ==
    /\ s \in connected
    /\ acceptsAction(World, s, roomId)
    /\ Commit(stand(World, s, roomId), Event("stand", s, roomId, TRUE))
    /\ UNCHANGED <<connected, socketRooms, betsPlaced>>
    /\ ByClient

StandRejected(s, roomId) ==
    /\ s \in connected
    /\ ~acceptsAction(World, s, roomId)
    /\ Commit(stand(World, s, roomId), Event("stand", s, roomId, FALSE))
    /\ UNCHANGED <<connected, socketRooms, betsPlaced>>
    /\ ByClient

(***************************************************************************)
(* Timer callbacks.  A callback armed by room object o closes over         *)
(* room = heap[o] and roomId = heap[o].id.                                 *)
(***************************************************************************)
\* the running timers of key k that object o armed: 0 is the one whose handle
\* room.timers[k] holds, i > 0 the i-th lost one
Handles(o, k) ==
    (IF heap[o].timers[k].on THEN {0} ELSE {}) \cup (1..Len(heap[o].lost[k]))

ArmedOf(o, k, h) == IF h = 0 THEN heap[o].timers[k] ELSE heap[o].lost[k][h]

TimerEvent(name, o, roomId, armed) == [name |-> name, obj |-> o, roomId |-> roomId, armed |-> armed]

\* the betCountdown interval reaching countdown < 0, lines 148-152
BetCountdownEnd(o) ==
    /\ heap[o].timers["betCountdown"].on
    /\ Commit(Clear(World, o, "betCountdown"),
              TimerEvent("betCountdown", o, heap[o].id, heap[o].timers["betCountdown"]))
    /\ ByTimer(heap[o].timers["betCountdown"], o, heap[o].id)

\* lines 157-162: the players still betting sit the round out
forceBets(w, o) ==
    [w EXCEPT !.heap[o].players =
        [id \in DOMAIN @ |-> IF @[id].status = "betting"
                             THEN [@[id] EXCEPT !.bet = 0, !.status = "betted"] ELSE @[id]]]

betTimeoutApplies(w, roomId) ==
    w.rooms[roomId] # NoRoom /\ w.heap[w.rooms[roomId]].gameState = "betting"

\* the betTimeout callback, lines 155-165
betTimeout(w, o, draws) ==
    LET roomId == w.heap[o].id
        w0 == Clear(w, o, "betTimeout")
    IN  IF betTimeoutApplies(w0, roomId) THEN dealCards(forceBets(w0, o), roomId, draws) ELSE w0

betTimeoutDraws(w, o) ==
    LET roomId == w.heap[o].id
    IN  IF betTimeoutApplies(w, roomId)
        THEN cardsToDeal(forceBets(w, o).heap[w.rooms[roomId]]) ELSE 0

BetTimeout(o) ==
    /\ heap[o].timers["betTimeout"].on
    /\ \E draws \in Draws(betTimeoutDraws(World, o)) :
          Commit(betTimeout(World, o, draws),
                 TimerEvent("betTimeout", o, heap[o].id, heap[o].timers["betTimeout"]))
    /\ ByTimer(heap[o].timers["betTimeout"], o, heap[o].id)

\* the actionTimer interval reaching countdown < 0, lines 195-203
actionDeadline(w, o) ==
    LET roomId == w.heap[o].id
        w0 == Clear(w, o, "actionTimer")
        w1 == [w0 EXCEPT !.heap[o].players =
                  [id \in DOMAIN @ |-> IF @[id].status = "playing"
                                       THEN [@[id] EXCEPT !.status = "stand"] ELSE @[id]]]
        w2 == Emit(updateGameState(w1, roomId),
                   [type |-> "notification", to |-> roomId, message |-> "dealerTurn"])
    IN  scheduleDealerTurn(w2, roomId)

ActionDeadline(o) ==
    /\ heap[o].timers["actionTimer"].on
    /\ Commit(actionDeadline(World, o),
              TimerEvent("actionTimer", o, heap[o].id, heap[o].timers["actionTimer"]))
    /\ ByTimer(heap[o].timers["actionTimer"], o, heap[o].id)

\* the delayed call of dealerTurn, lines 40-42 and 200-202
DealerStart(roomId) ==
    /\ pendingDealer[roomId] # <<>>
    /\ Commit(dealerTurn(delayedFired([World EXCEPT !.pendingDealer[roomId] = Tail(@)]), roomId),
              TimerEvent("dealerStart", Head(pendingDealer[roomId]).obj, roomId,
                         Head(pendingDealer[roomId])))
    /\ ByDelayed(Head(pendingDealer[roomId]), Head(pendingDealer[roomId]).obj, roomId)

\* one tick of the dealerTurn interval, lines 211-214
dealerTick(w, o, draws) ==
    LET roomId == w.heap[o].id
    IN  IF w.heap[o].dealer.score < DEALER_STANDS_AT
        THEN LET hand == Append(w.heap[o].dealer.hand, draws[1])
                 w1 == [w EXCEPT !.heap[o].dealer = [hand |-> hand, score |-> calculateScore(hand)]]
             IN  updateGameState(w1, roomId)
        ELSE determineWinner(Clear(w, o, "dealerTurn"), roomId)

\* the interval whose handle room.timers.dealerTurn holds ticks (h = 0) or one
\* whose handle was overwritten ticks (h > 0)
\* room.deck is set by startRound (line 137) and by nothing else; a room has
\* been through startRound when its round is 1 or more (line 132)
hasDeck(room) == room.round >= 1

DealerTick(o, h) ==
    /\ h \in Handles(o, "dealerTurn")
    /\ heap[o].dealer.score < DEALER_STANDS_AT => hasDeck(heap[o])
    /\ \E draws \in Draws(IF heap[o].dealer.score < DEALER_STANDS_AT THEN 1 ELSE 0) :
          Commit(dealerTick(World, o, draws),
                 TimerEvent("dealerTick", o, heap[o].id, ArmedOf(o, "dealerTurn", h)))
    /\ ByTimer(ArmedOf(o, "dealerTurn", h), o, heap[o].id)

\* the countdownTimer interval at countdown < 0, lines 284-288
nextRound(w, o) ==
    LET roomId == w.heap[o].id
        w0 == Clear(w, o, "countdownTimer")
    IN  startRound([w0 EXCEPT !.heap[o].round = @ + 1], roomId)

NextRound(o, h) ==
    /\ h \in Handles(o, "countdownTimer")
    /\ Commit(nextRound(World, o),
              TimerEvent("nextRound", o, heap[o].id, ArmedOf(o, "countdownTimer", h)))
    /\ ByTimer(ArmedOf(o, "countdownTimer", h), o, heap[o].id)

\* Array.prototype.sort((a, b) => b.chips - a.chips): stable, chips descending
RECURSIVE sortByChips(_)
sortByChips(entries) ==
    IF entries = <<>> THEN <<>>
    ELSE LET sorted == sortByChips(SubSeq(entries, 1, Len(entries) - 1))
             e == entries[Len(entries)]
             before == SelectSeq(sorted, LAMBDA x : x.chips >= e.chips)
             after == SelectSeq(sorted, LAMBDA x : x.chips < e.chips)
         IN  before \o <<e>> \o after

\* a faulty ranking, to test what C7 states: the players in the order of
\* room.players, not sorted
fullRankingUnsorted(room) ==
    [i \in 1..Len(room.ids) |->
        [id |-> room.ids[i], chips |-> room.players[room.ids[i]].chips]]

\* lines 253-255
fullRanking(room) ==
    sortByChips([i \in 1..Len(room.ids) |->
                    [id |-> room.ids[i], chips |-> room.players[room.ids[i]].chips]])

\* fullRanking.findIndex(p => p.id === socketId), -1 when there is none
findIndex(ranking, id) ==
    IF \E i \in 1..Len(ranking) : ranking[i].id = id
    THEN (CHOOSE i \in 1..Len(ranking) : ranking[i].id = id) - 1
    ELSE -1

\* io.sockets.adapter.rooms.get(roomId): the open connections that joined roomId
socketsInRoom(roomId) == {s \in connected : roomId \in SeqRange(socketRooms[s])}

\* lines 261-274: one payload per connection of the room that is a player of it
\* (payloads to different connections are listed in the order of room.ids)
rankingPayloads(room, roomId) ==
    LET ranking == fullRanking(room)
        top5 == SubSeq(ranking, 1, IF Len(ranking) < RANKING_SIZE THEN Len(ranking) ELSE RANKING_SIZE)
        receivers == SelectSeq(room.ids, LAMBDA id : id \in socketsInRoom(roomId)
                                                      /\ findIndex(ranking, id) >= 0)
    IN  [i \in 1..Len(receivers) |->
            [type |-> "finalRanking", to |-> receivers[i], top5 |-> top5,
             rank |-> findIndex(ranking, receivers[i]) + 1,
             chips |-> ranking[findIndex(ranking, receivers[i]) + 1].chips]]

\* the delayed final ranking, lines 249-278
finalRanking(w, roomId) ==
    IF w.rooms[roomId] = NoRoom THEN w
    ELSE [w EXCEPT !.out = @ \o rankingPayloads(w.heap[w.rooms[roomId]], roomId),
                   !.rooms[roomId] = NoRoom]

FinalRanking(roomId) ==
    /\ pendingFinal[roomId] # <<>>
    /\ Commit(finalRanking(delayedFired([World EXCEPT !.pendingFinal[roomId] = Tail(@)]), roomId),
              TimerEvent("finalRanking", Head(pendingFinal[roomId]).obj, roomId,
                         Head(pendingFinal[roomId])))
    /\ ByDelayed(Head(pendingFinal[roomId]), Head(pendingFinal[roomId]).obj, roomId)

(***************************************************************************)
(* The specification                                                       *)
(***************************************************************************)
AllSockets == {"s1", "s2", "s3", "s4", "s5", "s6"}

InitWith(sockets) ==
    /\ connected = sockets
    /\ socketRooms = [s \in AllSockets |-> <<>>]
    /\ rooms = [r \in RoomIds |-> NoRoom]
    /\ heap = [o \in Objs |-> FreeSlot]
    /\ pendingDealer = [r \in RoomIds |-> <<>>]
    /\ pendingFinal = [r \in RoomIds |-> <<>>]
    /\ ev = [name |-> "init"]
    /\ out = <<>>
    /\ betsPlaced = 0
    /\ staleFired = 0
    /\ satOut = [r \in RoomIds |-> {}]

\* the events the server acts on
Accepted ==
    \/ \E s \in AllSockets, roomId \in RoomIds : CreateRoom(s, roomId)
    \/ \E s \in AllSockets, roomId \in RoomIds : JoinRoom(s, roomId)
    \/ \E s \in AllSockets : RequestStartGame(s)
    \/ \E s \in AllSockets, roomId \in RoomIds, amount \in AmountInputs : PlaceBet(s, roomId, amount)
    \/ \E s \in AllSockets, roomId \in RoomIds : Hit(s, roomId)
    \/ \E s \in AllSockets, roomId \in RoomIds : Stand(s, roomId)
    \/ \E s \in AllSockets : Disconnect(s)

\* the timers and delayed callbacks
Timers ==
    \/ \E o \in Objs : BetCountdownEnd(o)
    \/ \E o \in Objs : BetTimeout(o)
    \/ \E o \in Objs : ActionDeadline(o)
    \/ \E roomId \in RoomIds : DealerStart(roomId)
    \/ \E o \in Objs, h \in 0..MaxStale : DealerTick(o, h)
    \/ \E o \in Objs, h \in 0..MaxStale : NextRound(o, h)
    \/ \E roomId \in RoomIds : FinalRanking(roomId)

\* the events the server refuses
Refused ==
    \/ \E s \in AllSockets, roomId \in RoomIds : CreateRoomRefused(s, roomId)
    \/ \E s \in AllSockets, roomId \in RoomIds : JoinRoomRefused(s, roomId)
    \/ \E s \in AllSockets : RequestStartGameRejected(s)
    \/ \E s \in AllSockets, roomId \in RoomIds, amount \in AmountInputs : PlaceBetRejected(s, roomId, amount)
    \/ \E s \in AllSockets, roomId \in RoomIds : HitRejected(s, roomId)
    \/ \E s \in AllSockets, roomId \in RoomIds : StandRejected(s, roomId)

(***************************************************************************)
(* Spec: the game of two connections in one room id, the events the        *)
(* server acts on and the timers.                                          *)
(***************************************************************************)
Init == InitWith(GameSockets)

Next == Accepted \/ Timers

Spec == Init /\ [][Next]_vars

\* the room registered under roomId, or FreeSlot
RoomOf(roomId) == IF rooms[roomId] = NoRoom THEN FreeSlot ELSE heap[rooms[roomId]]

\* the same after the step
RoomAfter(roomId) == IF rooms'[roomId] = NoRoom THEN FreeSlot ELSE heap'[rooms'[roomId]]

ClientEvents == {"createRoom", "joinRoom", "requestStartGame", "placeBet", "hit", "stand",
                 "disconnect"}
TimerEvents == {"betCountdown", "betTimeout", "actionTimer", "dealerStart", "dealerTick",
                "nextRound", "finalRanking"}

(***************************************************************************)
(* C1: the phase order                                                     *)
(***************************************************************************)
PhaseOrder ==
    {<<"none", "waiting">>, <<"waiting", "betting">>, <<"betting", "actionPhase">>,
     <<"actionPhase", "dealer">>, <<"dealer", "result">>, <<"result", "betting">>}

\* C1: in every step, a room object that stays in the registry keeps its phase
\* or changes it along waiting -> betting -> actionPhase -> dealer -> result
\* (-> betting), and the delayed dealerTurn enters the dealer phase from the
\* action phase only.  The code does not keep this.
C1_PhaseOrderOnly ==
    [][\A o \in Objs :
          (heap'[o].gameState \notin {"none", "destroyed"}) =>
              /\ heap'[o].gameState # heap[o].gameState
                    => <<heap[o].gameState, heap'[o].gameState>> \in PhaseOrder
              /\ (ev'.name = "dealerStart" /\ rooms[ev'.roomId] = o)
                    => heap[o].gameState = "actionPhase"]_vars

(***************************************************************************)
(* C2: callbacks that outlive their phase                                  *)
(***************************************************************************)
\* what C2 names as the room's state
GameFields(room) ==
    [gameState |-> room.gameState, round |-> room.round, dealerHand |-> room.dealer.hand,
     players |-> [id \in DOMAIN room.players |->
                    [chips |-> room.players[id].chips, bet |-> room.players[id].bet,
                     hand |-> room.players[id].hand, status |-> room.players[id].status]]]

\* the step is the firing of a timer or delayed callback of the room registered
\* under its id, armed in a phase or round the room has left
FiresLate ==
    /\ ev'.name \in TimerEvents
    /\ rooms[ev'.roomId] # NoRoom
    /\ rooms[ev'.roomId] = ev'.obj
    /\ \/ ev'.armed.phase # RoomOf(ev'.roomId).gameState
       \/ ev'.armed.round # RoomOf(ev'.roomId).round

\* C2: a timer or delayed callback that fires after the room left the phase that
\* armed it leaves the room's phase, round, dealer hand and every player's
\* chips, bet, hand and status as they were.  The code does not keep this.
C2_LateFiringChangesNothing ==
    [][FiresLate => /\ rooms'[ev'.roomId] = rooms[ev'.roomId]
                    /\ GameFields(heap'[ev'.obj]) = GameFields(heap[ev'.obj])]_vars

(***************************************************************************)
(* C3: the last bet of a round deals at once                               *)
(***************************************************************************)
\* the step is a placeBet that the server acts on and that leaves every player
\* of the room betted or eliminated
LastBetStep ==
    /\ ev'.name = "placeBet"
    /\ ev'.ok
    /\ \A id \in PlayerIds(RoomOf(ev'.roomId)) \ {ev'.s} :
          \/ RoomOf(ev'.roomId).players[id].status = "betted"
          \/ RoomOf(ev'.roomId).players[id].isEliminated

TimerIsOff(room, k) == ~room.timers[k].on /\ room.lost[k] = <<>>

\* the cards of a round were dealt between room `before` and room `after`
WasDealt(before, after) ==
    /\ Len(after.dealer.hand) = Len(before.dealer.hand) + 2
    /\ \A id \in PlayerIds(after) :
          IF after.players[id].bet > 0 /\ ~after.players[id].isEliminated
          THEN /\ Len(after.players[id].hand) = Len(before.players[id].hand) + 2
               /\ after.players[id].status = "playing"
          ELSE after.players[id].hand = before.players[id].hand

\* C3: the placeBet that leaves every non-eliminated player betted cancels, in
\* the same step, the bet countdown and the bet deadline, deals the cards and
\* puts the room in the action phase; no bet deadline is left to deal again.
C3_LastBetDealsAtOnce ==
    [][LastBetStep =>
          /\ rooms'[ev'.roomId] = rooms[ev'.roomId]
          /\ RoomAfter(ev'.roomId).gameState = "actionPhase"
          /\ RoomAfter(ev'.roomId).round = RoomOf(ev'.roomId).round
          /\ TimerIsOff(RoomAfter(ev'.roomId), "betCountdown")
          /\ TimerIsOff(RoomAfter(ev'.roomId), "betTimeout")
          /\ WasDealt(RoomOf(ev'.roomId), RoomAfter(ev'.roomId))]_vars

\* the second of two players has bet and both hold their two cards
C3_Reached ==
    /\ ev.name = "placeBet"
    /\ RoomOf(ev.roomId).gameState = "actionPhase"
    /\ Len(RoomOf(ev.roomId).ids) = 2
    /\ \A id \in PlayerIds(RoomOf(ev.roomId)) :
          /\ RoomOf(ev.roomId).players[id].status = "playing"
          /\ Len(RoomOf(ev.roomId).players[id].hand) = 2
    /\ TimerIsOff(RoomOf(ev.roomId), "betTimeout")

(***************************************************************************)
(* C4: a disconnect that ends the action phase                             *)
(***************************************************************************)
\* the step is the disconnect of a player of a room in the action phase, after
\* which players remain and each of them who takes part in the round stands
\* or is bust
LeavesOthersDone ==
    /\ ev'.name = "disconnect"
    /\ ev'.roomId # NullRoom
    /\ RoomOf(ev'.roomId).gameState = "actionPhase"
    /\ ev'.s \in PlayerIds(RoomOf(ev'.roomId))
    /\ PlayerIds(RoomOf(ev'.roomId)) \ {ev'.s} # {}
    /\ \A id \in PlayerIds(RoomOf(ev'.roomId)) \ {ev'.s} :
          (RoomOf(ev'.roomId).players[id].bet > 0 /\ ~RoomOf(ev'.roomId).players[id].isEliminated)
              => RoomOf(ev'.roomId).players[id].status \in {"stand", "bust"}

\* C4: in the action phase, the disconnect that leaves only players who stand
\* or are bust (or sit the round out) cancels the action countdown and queues
\* the delayed dealerTurn in the same step, so that the dealer phase is entered
\* without the action deadline.
C4_DisconnectEndsAction ==
    [][LeavesOthersDone =>
          /\ rooms'[ev'.roomId] = rooms[ev'.roomId]
          /\ ~RoomAfter(ev'.roomId).timers["actionTimer"].on
          /\ pendingDealer'[ev'.roomId]
                = Append(pendingDealer[ev'.roomId],
                         [obj |-> rooms[ev'.roomId], phase |-> "actionPhase",
                          round |-> RoomOf(ev'.roomId).round])]_vars

\* a player in play has left a room whose action countdown was running, and
\* the one who remains stands with a bet
C4_Reached ==
    /\ ev.name = "disconnect"
    /\ ev.roomId # NullRoom
    /\ RoomOf(ev.roomId).gameState = "actionPhase"
    /\ Len(pendingDealer[ev.roomId]) = 1
    /\ \E id \in PlayerIds(RoomOf(ev.roomId)) :
          RoomOf(ev.roomId).players[id].bet > 0 /\ RoomOf(ev.roomId).players[id].status = "stand"
    /\ ~RoomOf(ev.roomId).timers["actionTimer"].on

(***************************************************************************)
(* C5: the result of a round                                               *)
(***************************************************************************)
\* the step is a tick of the dealerTurn interval that finds the dealer at 17 or
\* more and the room in the registry: determineWinner runs
Settles ==
    /\ ev'.name = "dealerTick"
    /\ heap[ev'.obj].dealer.score >= DEALER_STANDS_AT
    /\ rooms[ev'.roomId] # NoRoom

\* the chips C5 gives player p against a dealer score
ChipsDue(p, dealerScore) ==
    CASE p.bet = 0 -> p.chips
      [] p.bet > 0 /\ p.status = "bust" -> p.chips - p.bet
      [] p.bet > 0 /\ p.status # "bust" /\ (dealerScore > 21 \/ p.score > dealerScore)
            -> p.chips + p.bet
      [] p.bet > 0 /\ p.status # "bust" /\ dealerScore <= 21 /\ p.score < dealerScore
            -> p.chips - p.bet
      [] p.bet > 0 /\ p.status # "bust" /\ dealerScore <= 21 /\ p.score = dealerScore
            -> p.chips

\* C5: when the result is computed, a bust player loses the bet whatever the
\* dealer's score; otherwise the player wins the bet if the dealer is over 21 or
\* the player's score is the greater, loses it if the player's score is the
\* lower, and keeps the chips on equal scores; a player who bet nothing keeps
\* chips and result entry.
C5_ResultOfRound ==
    [][Settles =>
          /\ PlayerIds(RoomAfter(ev'.roomId)) = PlayerIds(RoomOf(ev'.roomId))
          /\ \A id \in PlayerIds(RoomOf(ev'.roomId)) :
                /\ RoomAfter(ev'.roomId).players[id].chips
                      = ChipsDue(RoomOf(ev'.roomId).players[id], RoomOf(ev'.roomId).dealer.score)
                /\ RoomOf(ev'.roomId).players[id].bet = 0
                      => RoomAfter(ev'.roomId).players[id].result
                           = RoomOf(ev'.roomId).players[id].result]_vars

\* a bust player has lost the bet to a dealer who is bust too, and another
\* player bet nothing and has no result entry
C5_Reached ==
    /\ ev.name = "dealerTick"
    /\ RoomOf(ev.roomId).gameState = "result"
    /\ RoomOf(ev.roomId).dealer.score > 21
    /\ \E id \in PlayerIds(RoomOf(ev.roomId)) :
          /\ RoomOf(ev.roomId).players[id].status = "bust"
          /\ RoomOf(ev.roomId).players[id].chips = INITIAL_CHIPS - RoomOf(ev.roomId).players[id].bet
          /\ RoomOf(ev.roomId).players[id].bet > 0
    /\ \E id \in PlayerIds(RoomOf(ev.roomId)) :
          /\ RoomOf(ev.roomId).players[id].bet = 0
          /\ RoomOf(ev.roomId).players[id].result = ""
          /\ RoomOf(ev.roomId).players[id].chips = INITIAL_CHIPS

(***************************************************************************)
(* C6: eliminated players                                                  *)
(***************************************************************************)
\* C6: a player that a round has started without, as eliminated, holds no bet
\* and no card from then on, and stays eliminated.  The code does not keep
\* this.
C6_EliminatedSitOut ==
    \A r \in RoomIds : \A s \in satOut[r] :
        s \in PlayerIds(RoomOf(r)) =>
            /\ RoomOf(r).players[s].bet = 0
            /\ RoomOf(r).players[s].hand = <<>>

(***************************************************************************)
(* C7: the final ranking                                                   *)
(***************************************************************************)
\* the step is the delayed final ranking finding the room in the registry
Finalizes == ev'.name = "finalRanking" /\ rooms[ev'.roomId] # NoRoom

\* the 1-based place of player s when the players of room are ordered by chips,
\* descending, players with equal chips in the order of room.players
PlaceOf(room, s) ==
    1 + Cardinality({t \in PlayerIds(room) :
                        \/ room.players[t].chips > room.players[s].chips
                        \/ /\ room.players[t].chips = room.players[s].chips
                           /\ PositionOf(room, t) < PositionOf(room, s)})

\* the first five of that ordering
Leaderboard(room) ==
    [i \in 1..(IF Len(room.ids) < 5 THEN Len(room.ids) ELSE 5) |->
        LET s == CHOOSE x \in PlayerIds(room) : PlaceOf(room, x) = i
        IN  [id |-> s, chips |-> room.players[s].chips]]

\* C7: the final ranking runs for a room whose round is MAX_ROUNDS or later; it
\* sends every player of the room exactly one finalRanking payload, with the
\* player's chips, the player's place in the ordering by chips descending and
\* the first five of that ordering, and takes the room out of the registry.
C7_FinalRanking ==
    [][Finalizes =>
          /\ RoomOf(ev'.roomId).round >= MAX_ROUNDS
          /\ rooms'[ev'.roomId] = NoRoom
          /\ \A s \in PlayerIds(RoomOf(ev'.roomId)) :
                Cardinality({i \in DOMAIN out' : out'[i].to = s}) = 1
          /\ \A i \in DOMAIN out' :
                /\ out'[i].type = "finalRanking"
                /\ out'[i].to \in PlayerIds(RoomOf(ev'.roomId))
                /\ out'[i].chips = RoomOf(ev'.roomId).players[out'[i].to].chips
                /\ out'[i].rank = PlaceOf(RoomOf(ev'.roomId), out'[i].to)
                /\ out'[i].top5 = Leaderboard(RoomOf(ev'.roomId))]_vars

\* two players got their payloads; the one who joined first is second
C7_Reached ==
    /\ ev.name = "finalRanking"
    /\ rooms[ev.roomId] = NoRoom
    /\ Len(out) = 2
    /\ out[1].rank = 2 /\ out[2].rank = 1
    /\ out[1].chips < out[2].chips
    /\ out[1].top5 = <<[id |-> out[2].to, chips |-> out[2].chips],
                       [id |-> out[1].to, chips |-> out[1].chips]>>

(***************************************************************************)
(* SpecScore: one player in the action phase, holding any two cards, hits   *)
(* with any card up to MaxHand cards, or stands.                           *)
(***************************************************************************)
EmptyWorld ==
    [rooms |-> [r \in RoomIds |-> NoRoom], heap |-> [o \in Objs |-> FreeSlot],
     pendingDealer |-> [r \in RoomIds |-> <<>>], pendingFinal |-> [r \in RoomIds |-> <<>>],
     out |-> <<>>]

\* the world after s1 created r1, started the game and bet, and cards a, b went
\* to s1 and b, a to the dealer
DealtWorld(a, b) ==
    placeBet(requestStartGame(createRoom(EmptyWorld, "s1", "r1", "o1"), "r1"),
             "s1", "r1", Num(10010), <<a, b, b, a>>)

InitScore ==
    \E a \in AllValues, b \in AllValues :
        /\ connected = {"s1"}
        /\ socketRooms = [s \in AllSockets |-> IF s = "s1" THEN <<"r1">> ELSE <<>>]
        /\ rooms = DealtWorld(a, b).rooms
        /\ heap = DealtWorld(a, b).heap
        /\ pendingDealer = DealtWorld(a, b).pendingDealer
        /\ pendingFinal = DealtWorld(a, b).pendingFinal
        /\ ev = Event("placeBet", "s1", "r1", TRUE)
        /\ out = DealtWorld(a, b).out
        /\ betsPlaced = 1
        /\ staleFired = 0
        /\ satOut = [r \in RoomIds |-> {}]

HitAnyCard(s, roomId) ==
    /\ s \in PlayerIds(RoomOf(roomId))
    /\ Len(RoomOf(roomId).players[s].hand) < MaxHand
    /\ HitWith(s, roomId, AllValues)

NextScore ==
    \/ \E s \in GameSockets, roomId \in RoomIds : HitAnyCard(s, roomId)
    \/ \E s \in GameSockets, roomId \in RoomIds : Stand(s, roomId)

SpecScore == InitScore /\ [][NextScore]_vars

(***************************************************************************)
(* C8: the score of a hand                                                 *)
(***************************************************************************)
\* a face card counts 10, an Ace 11, a number card its number
CardPoints(v) ==
    IF v = "A" THEN 11
    ELSE IF v \in {"J", "Q", "K"} THEN 10
    ELSE CHOOSE n \in 2..10 : ToString(n) = v

HandPoints(hand) == SumOver([i \in 1..Len(hand) |-> CardPoints(hand[i])], 1..Len(hand))

AcesOf(hand) == Cardinality({i \in 1..Len(hand) : hand[i] = "A"})

\* how many Aces count 1: as few as bring the total to 21 or less, all of them
\* if none does
AcesAsOne(hand) ==
    IF \E k \in 0..AcesOf(hand) : HandPoints(hand) - 10 * k <= 21
    THEN CHOOSE k \in 0..AcesOf(hand) :
            /\ HandPoints(hand) - 10 * k <= 21
            /\ \A j \in 0..(k - 1) : HandPoints(hand) - 10 * j > 21
    ELSE AcesOf(hand)

ScoreByRule(hand) == HandPoints(hand) - 10 * AcesAsOne(hand)

\* C8: the score of every hand is the sum of its cards, face cards 10 and Aces
\* 11, less 10 for one Ace after the other while the total is over 21; [A, K]
\* scores 21, [A, A] 12 and [A, A, 9] 21.
C8_ScoreOfHand ==
    /\ \A r \in RoomIds :
          /\ RoomOf(r).dealer.score = ScoreByRule(RoomOf(r).dealer.hand)
          /\ \A s \in PlayerIds(RoomOf(r)) :
                RoomOf(r).players[s].score = ScoreByRule(RoomOf(r).players[s].hand)
    /\ calculateScore(<<"A", "K">>) = 21
    /\ calculateScore(<<"A", "A">>) = 12
    /\ calculateScore(<<"A", "A", "9">>) = 21

\* a player holds A, A, 9 after a hit and the score is 21
C8_Reached ==
    /\ ev.name = "hit"
    /\ \E s \in PlayerIds(RoomOf(ev.roomId)) :
          /\ RoomOf(ev.roomId).players[s].hand = <<"A", "A", "9">>
          /\ RoomOf(ev.roomId).players[s].score = 21
          /\ RoomOf(ev.roomId).players[s].status = "playing"

(***************************************************************************)
(* SpecLobby: six connections create, join and leave the room              *)
(***************************************************************************)
InitLobby == InitWith(AllSockets)

NextLobby ==
    \/ \E s \in AllSockets, roomId \in RoomIds : CreateRoom(s, roomId)
    \/ \E s \in AllSockets, roomId \in RoomIds : CreateRoomRefused(s, roomId)
    \/ \E s \in AllSockets, roomId \in RoomIds : JoinRoom(s, roomId)
    \/ \E s \in AllSockets, roomId \in RoomIds : JoinRoomRefused(s, roomId)
    \/ \E s \in AllSockets : Disconnect(s)

SpecLobby == InitLobby /\ [][NextLobby]_vars

(***************************************************************************)
(* C9: createRoom and joinRoom that are refused                            *)
(***************************************************************************)
\* the step is a createRoom for an id in the registry, or a joinRoom for an id
\* that is not in it or for a room of five players
ToBeRefused ==
    \/ ev'.name = "createRoom" /\ rooms[ev'.roomId] # NoRoom
    \/ ev'.name = "joinRoom" /\ rooms[ev'.roomId] = NoRoom
    \/ ev'.name = "joinRoom" /\ Cardinality(PlayerIds(RoomOf(ev'.roomId))) >= 5

\* C9: such an event is answered with one error message to its sender and
\* leaves the registry, the rooms and the sockets' rooms as they were; and no
\* step leaves a room with more than five players.
C9_RefusedLeavesAll ==
    [][/\ ToBeRefused =>
             /\ rooms' = rooms
             /\ heap' = heap
             /\ socketRooms' = socketRooms
             /\ Len(out') = 1
             /\ out'[1].type = "errorMsg"
             /\ out'[1].to = ev'.s
       /\ \A o \in Objs : Cardinality(DOMAIN heap'[o].players) <= 5]_vars

\* a sixth connection asked to join the room of five and got the error
C9_Reached ==
    /\ ev.name = "joinRoom"
    /\ Cardinality(PlayerIds(RoomOf(ev.roomId))) = 5
    /\ ev.s \notin PlayerIds(RoomOf(ev.roomId))
    /\ out = <<[type |-> "errorMsg", to |-> ev.s, message |-> "roomFull"]>>

(***************************************************************************)
(* C10: the dealer in the projected state                                  *)
(***************************************************************************)
\* the projected states among the messages of the last step
Projections == {i \in DOMAIN out : out[i].type = "gameStateUpdate"}

\* C10 as stated: a state projected in the action phase hides the dealer's
\* first card and reports the score of the card it shows; in any other phase
\* it carries the dealer's hand and score.  The code hides another card.
C10_FirstCardHidden ==
    \A i \in Projections :
        /\ out[i].gameState = RoomOf(out[i].to).gameState
        /\ IF out[i].gameState = "actionPhase"
           THEN /\ out[i].dealer.hand[1] = "hidden"
                /\ out[i].dealer.hand[2] = RoomOf(out[i].to).dealer.hand[2]
                /\ out[i].dealer.score = CardPoints(RoomOf(out[i].to).dealer.hand[2])
           ELSE /\ out[i].dealer.hand = RoomOf(out[i].to).dealer.hand
                /\ out[i].dealer.score = RoomOf(out[i].to).dealer.score

\* C10: a state projected in the action phase shows the dealer's first card,
\* then one hidden card in place of all the others, and reports the score of
\* the first card alone; in any other phase it carries the dealer's hand and
\* score.
C10_OnlyFirstCardShown ==
    \A i \in Projections :
        /\ out[i].gameState = RoomOf(out[i].to).gameState
        /\ IF out[i].gameState = "actionPhase"
           THEN /\ out[i].dealer.hand = <<RoomOf(out[i].to).dealer.hand[1], "hidden">>
                /\ out[i].dealer.score = CardPoints(RoomOf(out[i].to).dealer.hand[1])
           ELSE /\ out[i].dealer.hand = RoomOf(out[i].to).dealer.hand
                /\ out[i].dealer.score = RoomOf(out[i].to).dealer.score

\* the dealer holds 7 and K in the action phase and the projected state shows
\* the 7, a hidden card and the score 7
C10_Reached ==
    \E i \in Projections :
        /\ out[i].gameState = "actionPhase"
        /\ RoomOf(out[i].to).dealer.hand = <<"7", "K">>
        /\ RoomOf(out[i].to).dealer.score = 17
        /\ out[i].dealer = [hand |-> <<"7", "hidden">>, score |-> 7]

(***************************************************************************)
(* C11: one result computation per round                                   *)
(***************************************************************************)
\* C11: a result computation changes the chips of a player only if the round
\* has no result for that player yet, and then by the bet, up or down.  The
\* code does not keep this.
C11_OneResultPerRound ==
    [][Settles =>
          \A id \in PlayerIds(RoomOf(ev'.roomId)) \cap PlayerIds(RoomAfter(ev'.roomId)) :
              RoomAfter(ev'.roomId).players[id].chips # RoomOf(ev'.roomId).players[id].chips
                  => /\ RoomOf(ev'.roomId).players[id].result \in {"", "unset"}
                     /\ \/ RoomAfter(ev'.roomId).players[id].chips
                             = RoomOf(ev'.roomId).players[id].chips + RoomOf(ev'.roomId).players[id].bet
                        \/ RoomAfter(ev'.roomId).players[id].chips
                             = RoomOf(ev'.roomId).players[id].chips - RoomOf(ev'.roomId).players[id].bet]_vars

(***************************************************************************)
(* C12: a room id that is used again                                       *)
(***************************************************************************)
\* the room objects that left the registry with no timer running
DeadObjs == {o \in Objs : heap[o].gameState = "destroyed"}

\* socket.on('createRoom'), lines 46-53, with an id whose room was destroyed:
\* the new object takes the heap slot of the collected one
CreateRoomAgain(s, roomId) ==
    /\ s \in connected
    /\ rooms[roomId] = NoRoom
    /\ FreeObjs = {}
    /\ DeadObjs # {}
    /\ LET o == CHOOSE x \in DeadObjs : TRUE
       IN  Commit(createRoom(World, s, roomId, o), Event("createRoom", s, roomId, TRUE))
    /\ socketRooms' = socketJoin(s, roomId)
    /\ UNCHANGED <<connected, betsPlaced>>
    /\ ByClient

\* a dealer tick in a room that startRound never prepared: dealCard(room.deck)
\* of line 212 throws on the undefined deck, nothing catches it and the server
\* process ends with all its rooms, timers and connections
DealerTickThrows(o, h) ==
    /\ h \in Handles(o, "dealerTurn")
    /\ heap[o].dealer.score < DEALER_STANDS_AT
    /\ ~hasDeck(heap[o])
    /\ ArmedOf(o, "dealerTurn", h).waitFor = 0
    /\ connected' = {}
    /\ socketRooms' = [s \in AllSockets |-> <<>>]
    /\ rooms' = [r \in RoomIds |-> NoRoom]
    /\ heap' = [x \in Objs |-> DeadSlot]
    /\ pendingDealer' = [r \in RoomIds |-> <<>>]
    /\ pendingFinal' = [r \in RoomIds |-> <<>>]
    /\ out' = <<>>
    /\ satOut' = [r \in RoomIds |-> {}]
    /\ ev' = [name |-> "serverDown"]
    /\ UNCHANGED <<betsPlaced, staleFired>>

NextAgain ==
    \/ Next
    \/ \E s \in AllSockets, roomId \in RoomIds : CreateRoomAgain(s, roomId)
    \/ \E o \in Objs, h \in 0..MaxStale : DealerTickThrows(o, h)

\* SpecAgain: Spec and the creation of a room under the id of a destroyed one
SpecAgain == Init /\ [][NextAgain]_vars

\* a room in the waiting phase has armed nothing (createRoom and joinRoom set
\* no timer, and no phase leads back to waiting): a timer or delayed callback
\* that fires for its id was armed by an earlier room of that id
FiresFromOldRoom ==
    /\ ev'.name \in TimerEvents
    /\ rooms[ev'.roomId] # NoRoom
    /\ RoomOf(ev'.roomId).gameState = "waiting"

\* C12: a timer or delayed callback armed by a destroyed room leaves the room
\* created later under the same id in the registry and leaves its state as it
\* was.  The code does not keep this.
C12_OldCallbacksSpareNewRoom ==
    [][FiresFromOldRoom => /\ rooms'[ev'.roomId] = rooms[ev'.roomId]
                           /\ RoomAfter(ev'.roomId) = RoomOf(ev'.roomId)]_vars

(***************************************************************************)
(* C13: elimination is permanent                                           *)
(***************************************************************************)
\* C13: in every step, a player who is eliminated and stays a player of the
\* room stays eliminated and keeps the chips.  The code does not keep this.
C13_EliminatedForGood ==
    [][\A roomId \in RoomIds :
          (rooms[roomId] # NoRoom /\ rooms'[roomId] = rooms[roomId]) =>
              \A id \in PlayerIds(RoomOf(roomId)) \cap PlayerIds(RoomAfter(roomId)) :
                  RoomOf(roomId).players[id].isEliminated
                      => /\ RoomAfter(roomId).players[id].isEliminated
                         /\ RoomAfter(roomId).players[id].chips = RoomOf(roomId).players[id].chips]_vars

(***************************************************************************)
(* SpecFair: the game no client bets in, with timers that fire fairly and  *)
(* as often as they are armed                                              *)
(***************************************************************************)
\* room.round is a double: room.round++ leaves it unchanged from 2^53 on.  The
\* model scales this down: the counter stops at RoundCap
RoundCap == 6

\* a timer whose time has come fires, in or out of the phase that armed it
Fires(armed) ==
    /\ armed.waitFor = 0
    /\ UNCHANGED <<connected, socketRooms, betsPlaced, staleFired>>

BetCountdownEnds(o) ==
    /\ heap[o].timers["betCountdown"].on
    /\ Commit(Clear(World, o, "betCountdown"),
              TimerEvent("betCountdown", o, heap[o].id, heap[o].timers["betCountdown"]))
    /\ Fires(heap[o].timers["betCountdown"])

BetTimeoutFires(o) ==
    /\ heap[o].timers["betTimeout"].on
    /\ \E draws \in Draws(betTimeoutDraws(World, o)) :
          Commit(betTimeout(World, o, draws),
                 TimerEvent("betTimeout", o, heap[o].id, heap[o].timers["betTimeout"]))
    /\ Fires(heap[o].timers["betTimeout"])

ActionDeadlineFires(o) ==
    /\ heap[o].timers["actionTimer"].on
    /\ Commit(actionDeadline(World, o),
              TimerEvent("actionTimer", o, heap[o].id, heap[o].timers["actionTimer"]))
    /\ Fires(heap[o].timers["actionTimer"])

\* the delayed call of dealerTurn, lines 40-42 and 200-202; of the schedules of
\* the code SpecFair follows those in which it fires while no dealer interval
\* of the room runs
DealerStartFires(roomId) ==
    /\ pendingDealer[roomId] # <<>>
    /\ rooms[roomId] # NoRoom => ~heap[rooms[roomId]].timers["dealerTurn"].on
    /\ Commit(dealerTurn(delayedFired([World EXCEPT !.pendingDealer[roomId] = Tail(@)]), roomId),
              TimerEvent("dealerStart", Head(pendingDealer[roomId]).obj, roomId,
                         Head(pendingDealer[roomId])))
    /\ UNCHANGED <<connected, socketRooms, betsPlaced, staleFired>>

DealerTicks(o, h) ==
    /\ h \in Handles(o, "dealerTurn")
    /\ heap[o].dealer.score < DEALER_STANDS_AT => hasDeck(heap[o])
    /\ \E draws \in Draws(IF heap[o].dealer.score < DEALER_STANDS_AT THEN 1 ELSE 0) :
          Commit(dealerTick(World, o, draws),
                 TimerEvent("dealerTick", o, heap[o].id, ArmedOf(o, "dealerTurn", h)))
    /\ Fires(ArmedOf(o, "dealerTurn", h))

\* the countdownTimer callback at countdown < 0, lines 284-288, with the
\* counter that stops at RoundCap
nextRoundUpTo(w, o) ==
    LET roomId == w.heap[o].id
        w0 == Clear(w, o, "countdownTimer")
    IN  startRound([w0 EXCEPT !.heap[o].round = IF @ < RoundCap THEN @ + 1 ELSE @], roomId)

NextRoundFires(o, h) ==
    /\ h \in Handles(o, "countdownTimer")
    /\ Commit(nextRoundUpTo(World, o),
              TimerEvent("nextRound", o, heap[o].id, ArmedOf(o, "countdownTimer", h)))
    /\ Fires(ArmedOf(o, "countdownTimer", h))

FinalRankingFires(roomId) ==
    /\ pendingFinal[roomId] # <<>>
    /\ Commit(finalRanking(delayedFired([World EXCEPT !.pendingFinal[roomId] = Tail(@)]), roomId),
              TimerEvent("finalRanking", Head(pendingFinal[roomId]).obj, roomId,
                         Head(pendingFinal[roomId])))
    /\ UNCHANGED <<connected, socketRooms, betsPlaced, staleFired>>

\* the events of the clients in SpecFair
LobbyEvents ==
    \/ \E s \in AllSockets, roomId \in RoomIds : CreateRoom(s, roomId)
    \/ \E s \in AllSockets, roomId \in RoomIds : JoinRoom(s, roomId)
    \/ \E s \in AllSockets : RequestStartGame(s)
    \/ \E s \in AllSockets : Disconnect(s)

TimersFire ==
    \/ \E o \in Objs : BetCountdownEnds(o)
    \/ \E o \in Objs : BetTimeoutFires(o)
    \/ \E o \in Objs : ActionDeadlineFires(o)
    \/ \E roomId \in RoomIds : DealerStartFires(roomId)
    \/ \E o \in Objs, h \in 0..1 : DealerTicks(o, h)
    \/ \E o \in Objs, h \in 0..1 : NextRoundFires(o, h)
    \/ \E roomId \in RoomIds : FinalRankingFires(roomId)

NextFair == LobbyEvents \/ TimersFire

\* the timer of key k of object o with handle h is due: this is the enabling
\* condition of its action
Due(o, k, h) == h \in Handles(o, k) /\ ArmedOf(o, k, h).waitFor = 0

DealerStartDue(roomId) ==
    /\ pendingDealer[roomId] # <<>>
    /\ rooms[roomId] # NoRoom => ~heap[rooms[roomId]].timers["dealerTurn"].on

\* the step is the firing of that timer
Fired(name, o, k, h) == ev'.name = name /\ ev'.obj = o /\ ev'.armed = ArmedOf(o, k, h)

\* weak fairness of a timer's action, WF_vars(A), written out as
\* []<>~ENABLED A \/ []<><<A>>_vars with the enabling condition stated
FairTimer(name, o, k, h) == []<>(~Due(o, k, h)) \/ []<><<Fired(name, o, k, h)>>_vars

\* every timer and delayed callback that stays due fires: the event loop of
\* Node runs each callback whose time has come
Fairness ==
    /\ \A o \in Objs : WF_vars(BetCountdownEnds(o))
    /\ \A o \in Objs : FairTimer("betTimeout", o, "betTimeout", 0)
    /\ \A o \in Objs : FairTimer("actionTimer", o, "actionTimer", 0)
    /\ \A o \in Objs, h \in 0..1 : FairTimer("dealerTick", o, "dealerTurn", h)
    /\ \A o \in Objs, h \in 0..1 : FairTimer("nextRound", o, "countdownTimer", h)
    /\ \A roomId \in RoomIds :
          \/ []<>(~DealerStartDue(roomId))
          \/ []<><<ev'.name = "dealerStart" /\ ev'.roomId = roomId>>_vars
    /\ \A roomId \in RoomIds :
          \/ []<>(pendingFinal[roomId] = <<>>)
          \/ []<><<ev'.name = "finalRanking" /\ ev'.roomId = roomId>>_vars

SpecFair == Init /\ [][NextFair]_vars /\ Fairness

\* the room registered under roomId is in a phase of a started game
InGame(roomId) == RoomOf(roomId).gameState \in {"betting", "actionPhase", "dealer", "result"}

(***************************************************************************)
(* C14: no phase blocks, and the game ends                                 *)
(***************************************************************************)
\* C14: with timers that fire fairly, a room whose game has started is in the
\* end removed from the registry (after the result of round 5, or when its
\* last player leaves).  The code does not keep this.
C14_StartedGameEnds ==
    \A roomId \in RoomIds : InGame(roomId) ~> (rooms[roomId] = NoRoom)

(***************************************************************************)
(* C15: the round counter                                                  *)
(***************************************************************************)
\* C15: a room's round is 0 in the waiting phase and at most MAX_ROUNDS in
\* every phase; a step changes it only from 0 to 1, when requestStartGame
\* starts the game, or by 1, when the countdown armed by the result of the
\* current round ends.  The code does not keep this.
C15_RoundCounter ==
    [][\A roomId \in RoomIds :
          (rooms[roomId] # NoRoom /\ rooms'[roomId] = rooms[roomId]) =>
              /\ RoomAfter(roomId).round <= MAX_ROUNDS
              /\ RoomAfter(roomId).gameState = "waiting" => RoomAfter(roomId).round = 0
              /\ \/ RoomAfter(roomId).round = RoomOf(roomId).round
                 \/ /\ ev'.name = "requestStartGame"
                    /\ RoomOf(roomId).round = 0
                    /\ RoomAfter(roomId).round = 1
                 \/ /\ ev'.name = "nextRound"
                    /\ ev'.armed.phase = "result"
                    /\ ev'.armed.round = RoomOf(roomId).round
                    /\ RoomAfter(roomId).round = RoomOf(roomId).round + 1]_vars

(***************************************************************************)
(* C16: the scores are the scores of the hands                             *)
(***************************************************************************)
\* C16: in every state, in every room of the registry, the score of every
\* player is calculateScore of the player's hand and the score of the dealer
\* is calculateScore of the dealer's hand.
C16_ScoresMatchHands ==
    \A roomId \in RoomIds :
        rooms[roomId] # NoRoom =>
            /\ \A id \in PlayerIds(RoomOf(roomId)) :
                  RoomOf(roomId).players[id].score = calculateScore(RoomOf(roomId).players[id].hand)
            /\ RoomOf(roomId).dealer.score = calculateScore(RoomOf(roomId).dealer.hand)

\* a player who has hit and a dealer who has drawn, in a round after the first
C16_Reached ==
    \E roomId \in RoomIds :
        /\ rooms[roomId] # NoRoom
        /\ RoomOf(roomId).round >= 2
        /\ Len(RoomOf(roomId).dealer.hand) >= 3
        /\ \E id \in PlayerIds(RoomOf(roomId)) : Len(RoomOf(roomId).players[id].hand) >= 3

(***************************************************************************)
(* SpecInput: one round, by the events of the clients, accepted or         *)
(* refused, and the dealer's timers; the amount of every placeBet is on    *)
(* record                                                                  *)
(***************************************************************************)
\* socket.on('placeBet'), lines 74-93, whatever the amount: the event records
\* what the client sent
PlaceBetSent(s, roomId, amount) ==
    /\ s \in connected
    /\ \E draws \in Draws(placeBetDraws(World, s, roomId, amount)) :
          Commit(placeBet(World, s, roomId, amount, draws),
                 [name |-> "placeBet", s |-> s, roomId |-> roomId,
                  ok |-> acceptsBet(World, s, roomId, amount), amount |-> amount])
    /\ acceptsBet(World, s, roomId, amount) => betsPlaced < MaxBets
    /\ betsPlaced' = IF acceptsBet(World, s, roomId, amount) THEN betsPlaced + 1 ELSE betsPlaced
    /\ UNCHANGED <<connected, socketRooms>>
    /\ ByClient

NextInput ==
    \/ \E s \in AllSockets, roomId \in RoomIds : CreateRoom(s, roomId)
    \/ \E s \in AllSockets, roomId \in RoomIds : JoinRoom(s, roomId)
    \/ \E s \in AllSockets : RequestStartGame(s)
    \/ \E s \in AllSockets : RequestStartGameRejected(s)
    \/ \E s \in AllSockets, roomId \in RoomIds, amount \in AmountInputs : PlaceBetSent(s, roomId, amount)
    \/ \E s \in AllSockets, roomId \in RoomIds : Hit(s, roomId)
    \/ \E s \in AllSockets, roomId \in RoomIds : HitRejected(s, roomId)
    \/ \E s \in AllSockets, roomId \in RoomIds : Stand(s, roomId)
    \/ \E s \in AllSockets, roomId \in RoomIds : StandRejected(s, roomId)
    \/ \E s \in AllSockets : Disconnect(s)
    \/ \E roomId \in RoomIds : DealerStart(roomId)
    \/ \E o \in Objs, h \in 0..MaxStale : DealerTick(o, h)

SpecInput == Init /\ [][NextInput]_vars

(***************************************************************************)
(* C17: a rejected action changes nothing                                  *)
(***************************************************************************)
\* the amount is a positive integer
IsPositiveInteger(a) == a.isNum /\ a.tenths > 0 /\ a.tenths % 10 = 0

\* the room the event is addressed to is not in the registry
NoSuchRoom == ev'.roomId \notin RoomIds \/ rooms[ev'.roomId] = NoRoom

\* the step is an action of a player that C17 lists as rejected
RejectedAction ==
    \/ /\ ev'.name \in {"hit", "stand"}
       /\ \/ NoSuchRoom
          \/ RoomOf(ev'.roomId).gameState # "actionPhase"
          \/ /\ ev'.s \in PlayerIds(RoomOf(ev'.roomId))
             /\ RoomOf(ev'.roomId).players[ev'.s].status # "playing"
    \/ /\ ev'.name = "placeBet"
       /\ \/ NoSuchRoom
          \/ RoomOf(ev'.roomId).gameState # "betting"
          \/ ev'.s \notin PlayerIds(RoomOf(ev'.roomId))
          \/ RoomOf(ev'.roomId).players[ev'.s].isEliminated
          \/ ~IsPositiveInteger(ev'.amount)
    \/ /\ ev'.name = "requestStartGame"
       /\ NoSuchRoom \/ RoomOf(ev'.roomId).gameState # "waiting"

\* C17: a hit, stand, placeBet or requestStartGame that is to be rejected
\* leaves the registry, every room and every queued callback as they were.
\* The code does not keep this.
C17_RejectedChangesNothing ==
    [][RejectedAction => /\ rooms' = rooms
                         /\ heap' = heap
                         /\ pendingDealer' = pendingDealer
                         /\ pendingFinal' = pendingFinal]_vars

(***************************************************************************)
(* SpecLate: the game no client bets in, with the timers of Spec and a     *)
(* delayed dealerTurn that fires in whatever phase the room is             *)
(***************************************************************************)
\* the delayed call of dealerTurn, lines 40-42 and 200-202
DealerStartLate(roomId) ==
    /\ pendingDealer[roomId] # <<>>
    /\ Commit(dealerTurn(delayedFired([World EXCEPT !.pendingDealer[roomId] = Tail(@)]), roomId),
              TimerEvent("dealerStart", Head(pendingDealer[roomId]).obj, roomId,
                         Head(pendingDealer[roomId])))
    /\ UNCHANGED <<connected, socketRooms, betsPlaced, staleFired>>

NextLate ==
    \/ LobbyEvents
    \/ \E o \in Objs : BetCountdownEnd(o)
    \/ \E o \in Objs : BetTimeout(o)
    \/ \E o \in Objs : ActionDeadline(o)
    \/ \E roomId \in RoomIds : DealerStartLate(roomId)
    \/ \E o \in Objs, h \in 0..MaxStale : DealerTick(o, h)
    \/ \E o \in Objs, h \in 0..MaxStale : NextRound(o, h)
    \/ \E roomId \in RoomIds : FinalRanking(roomId)

SpecLate == Init /\ [][NextLate]_vars

(***************************************************************************)
(* C18: the dealer's draws                                                 *)
(***************************************************************************)
\* the step is a tick of a dealer interval that adds a card to the dealer's
\* hand of the room object it belongs to
DealerDraws ==
    /\ ev'.name = "dealerTick"
    /\ Len(heap'[ev'.obj].dealer.hand) = Len(heap[ev'.obj].dealer.hand) + 1

\* C18: a dealer interval adds a card only in the dealer phase and below 17;
\* a room in the result phase has a dealer score of 17 or more, and a step
\* that leaves the round as it is leaves the dealer's hand of a room in the
\* result phase as it is.  The code does not keep this.
C18_DealerDrawsInDealerPhase ==
    [][/\ DealerDraws => /\ heap[ev'.obj].gameState = "dealer"
                         /\ heap[ev'.obj].dealer.score < DEALER_STANDS_AT
       /\ \A roomId \in RoomIds :
             (rooms'[roomId] # NoRoom /\ RoomAfter(roomId).gameState = "result")
                 => RoomAfter(roomId).dealer.score >= DEALER_STANDS_AT
       /\ \A roomId \in RoomIds :
             (/\ rooms[roomId] # NoRoom
              /\ rooms'[roomId] = rooms[roomId]
              /\ RoomOf(roomId).gameState = "result"
              /\ RoomAfter(roomId).gameState = "result"
              /\ RoomAfter(roomId).round = RoomOf(roomId).round)
                 => RoomAfter(roomId).dealer.hand = RoomOf(roomId).dealer.hand]_vars

(***************************************************************************)
(* C19: the disconnect of a player                                         *)
(***************************************************************************)
\* the step is the disconnect of a connection that is a player of its room
PlayerLeaves ==
    /\ ev'.name = "disconnect"
    /\ ev'.roomId \in RoomIds
    /\ rooms[ev'.roomId] # NoRoom
    /\ ev'.s \in PlayerIds(RoomOf(ev'.roomId))

\* no timer and no delayed callback of the room object, or of its id, is left
NothingArmed(room, roomId) ==
    /\ ~HasTimers(room)
    /\ pendingDealer'[roomId] = <<>>
    /\ pendingFinal'[roomId] = <<>>

\* C19: the disconnect of a player removes the player from the room; when it
\* was the last player, the same step removes the room from the registry and
\* leaves none of its timers and delayed callbacks armed; and after every step
\* every room of the registry has a player.  The code does not keep this.
C19_DisconnectCleansUp ==
    [][/\ PlayerLeaves =>
             IF PlayerIds(RoomOf(ev'.roomId)) = {ev'.s}
             THEN /\ rooms'[ev'.roomId] = NoRoom
                  /\ NothingArmed(heap'[rooms[ev'.roomId]], ev'.roomId)
             ELSE /\ rooms'[ev'.roomId] = rooms[ev'.roomId]
                  /\ PlayerIds(RoomAfter(ev'.roomId)) = PlayerIds(RoomOf(ev'.roomId)) \ {ev'.s}
       /\ \A roomId \in RoomIds :
             rooms'[roomId] # NoRoom => PlayerIds(RoomAfter(roomId)) # {}]_vars

(***************************************************************************)
(* C20: eliminated means out of chips                                      *)
(***************************************************************************)
\* C20: in every state, in every room of the registry, a player is marked
\* eliminated exactly if the player's chips are below 0; so a player who is
\* not eliminated has chips of 0 or more in every phase.
C20_EliminatedIffBelowZero ==
    \A roomId \in RoomIds :
        \A id \in PlayerIds(RoomOf(roomId)) :
            RoomOf(roomId).players[id].isEliminated <=> RoomOf(roomId).players[id].chips < 0

\* after a result computation, a room with a player who lost the chips and is
\* eliminated and a player who is not
C20_Reached ==
    \E roomId \in RoomIds :
        /\ ev.name = "dealerTick"
        /\ RoomOf(roomId).gameState = "result"
        /\ \E id \in PlayerIds(RoomOf(roomId)) :
              RoomOf(roomId).players[id].isEliminated /\ RoomOf(roomId).players[id].chips < 0
        /\ \E id \in PlayerIds(RoomOf(roomId)) :
              ~RoomOf(roomId).players[id].isEliminated /\ RoomOf(roomId).players[id].chips >= 0

====
